---- MODULE Spec2Model ----
(***************************************************************************)
(* State-machine model of the keylime agent's main assembly (src/main.rs): *)
(* the startup sequence up to the HTTP server, the key rendezvous shared   *)
(* between the ukey/vkey handlers and the payload worker, and the worker's *)
(* release steps.                                                          *)
(*                                                                         *)
(* keys_handler.rs and crypto.rs are not part of the sources at hand: the  *)
(* handlers' transitions and the crypto primitives follow the design       *)
(* document (sections 4.4 and 4.6); everything else follows main.rs.       *)
(*                                                                         *)
(* SpecAk follows startup alone over restarts of the agent, with the TPM   *)
(* data file that outlives them; SpecConfig follows single calls of the    *)
(* functions of keylime-agent/src/config.rs on inputs of their own;        *)
(* SpecTpm follows startup and the quote handlers' use of the TPM context; *)
(* SpecSequence keeps the order of the key submissions.                    *)
(***************************************************************************)
EXTENDS Integers, Sequences, FiniteSets, TLC

\* ------------------------------------------------------------------ bounds

\* Largest number of rejected combine attempts the model follows.
MaxRejects == 2

\* the bound on the AKs one TPM generates over the restarts followed
MaxAks == 3

\* the longest path, in atoms, that config_get_file_path is tried on
MaxPathLen == 3

\* the longest sequence of submissions whose order is kept
MaxSubmissions == 3

\* ------------------------------------------------------------- value domains

\* an optional value: the derived key, a decryption result
None == <<"None">>

Some(x) == <<"Some", x>>

Unwrap(opt) == opt[2]

\* the U halves a tenant may submit, and the V halves a verifier may: of one
\* byte and of two
UKeys == {<<1>>, <<1, 1>>}

VKeys == {<<0>>, <<1, 1>>}

AgentUuid == "d432fbb3"
OtherUuid == "ffffffff"

\* ------------------------------------------------------------ crypto helpers

\* one bit position of a bytewise XOR
RECURSIVE ByteXor(_, _)
ByteXor(a, b) ==
    IF a = 0 /\ b = 0 THEN 0
    ELSE (((a % 2) + (b % 2)) % 2) + (2 * ByteXor(a \div 2, b \div 2))

\* SymmKey::xor: defined for halves of equal length only
CanXor(u, v) == Len(u) = Len(v)

Xor(u, v) == [i \in 1..Len(u) |-> ByteXor(u[i], v[i])]

Base64(bytes) == <<"b64", bytes>>

Hex(bytes) == <<"hex", bytes>>

compute_hmac(key, msg) == <<"hmac", key, msg>>

\* the tag a candidate key must carry: hex(HMAC(base64(candidate), uuid))
ExpectedTag(candidate, uuid) == Hex(compute_hmac(Base64(candidate), uuid))

\* the all-zero tag buffer: no tag submitted yet
ZeroTag == <<>>

\* an authenticated ciphertext of plaintext pt under key k
Encrypt(k, pt) == <<"aead", k, pt>>

\* crypto::decrypt_aead: the plaintext, or None when authentication fails
decrypt_aead(key, ct) ==
    IF ct # <<>> /\ ct[1] = "aead" /\ ct[2] = key THEN Some(ct[3]) ELSE None

\* ------------------------------------------------------------ request inputs

\* tags a tenant may submit: right ones, and ones computed for another agent
Tags == {ExpectedTag(<<1>>, AgentUuid), ExpectedTag(<<0, 0>>, AgentUuid),
         ExpectedTag(<<1>>, OtherUuid)}

\* ciphertexts a tenant may submit
Payloads == {Encrypt(<<1>>, <<"ok">>), Encrypt(<<0, 0>>, <<"ok">>)}

\* a field a request may leave out
Absent == <<"Absent">>

\* ------------------------------------------------- configuration (config.rs)

\* A string is the sequence of its atoms: a path separator, a single character
\* or a whole word (a file name, a keyword). "default" is <<"default">>.

\* the lowercase hexadecimal digits, in order of value
HexDigits ==
    <<"0", "1", "2", "3", "4", "5", "6", "7", "8", "9", "a", "b", "c", "d", "e", "f">>

UpperHexDigits ==
    <<"0", "1", "2", "3", "4", "5", "6", "7", "8", "9", "A", "B", "C", "D", "E", "F">>

IsHexDigit(c) ==
    \E i \in 1..16 : HexDigits[i] = c \/ UpperHexDigits[i] = c

\* the value of a hexadecimal digit of either case
HexValue(c) ==
    (CHOOSE i \in 1..16 : HexDigits[i] = c \/ UpperHexDigits[i] = c) - 1

\* DEFAULT_UUID, "d432fbb3-d2f1-4a97-9ef7-75bd81c00000"
DEFAULT_UUID ==
    <<"d", "4", "3", "2", "f", "b", "b", "3", "-", "d", "2", "f", "1", "-",
      "4", "a", "9", "7", "-", "9", "e", "f", "7", "-",
      "7", "5", "b", "d", "8", "1", "c", "0", "0", "0", "0", "0">>

\* where a hyphenated UUID has its hyphens, and how long it is
HyphenAt == {9, 14, 19, 24}

HyphenatedLen == 36

SimpleLen == 32

\* the characters of s that are not at the positions in skip, in order
RECURSIVE Without(_, _, _)
Without(s, skip, i) ==
    IF i > Len(s) THEN <<>>
    ELSE IF i \in skip THEN Without(s, skip, i + 1)
    ELSE <<s[i]>> \o Without(s, skip, i + 1)

\* the forms Uuid::parse_str takes, each brought to its 32 digits: hyphenated,
\* simple, braced, and URN; None for anything else
Digits(s) ==
    LET simple(t) == IF Len(t) = SimpleLen THEN Some(t) ELSE None
        hyphenated(t) ==
            IF Len(t) = HyphenatedLen /\ \A i \in HyphenAt : t[i] = "-"
            THEN Some(Without(t, HyphenAt, 1))
            ELSE None
    IN  IF Len(s) = SimpleLen THEN simple(s)
        ELSE IF Len(s) = HyphenatedLen THEN hyphenated(s)
        ELSE IF Len(s) = HyphenatedLen + 2 /\ s[1] = "{" /\ s[Len(s)] = "}"
        THEN hyphenated(SubSeq(s, 2, Len(s) - 1))
        ELSE IF Len(s) = HyphenatedLen + 1 /\ s[1] = "urn:uuid:"
        THEN hyphenated(SubSeq(s, 2, Len(s)))
        ELSE None

\* Uuid::parse_str: the 32 four-bit values of a well-formed UUID, or None
parse_str(s) ==
    LET d == Digits(s)
    IN  IF d # None /\ \A i \in 1..SimpleLen : IsHexDigit(Unwrap(d)[i])
        THEN Some([i \in 1..SimpleLen |-> HexValue(Unwrap(d)[i])])
        ELSE None

\* Uuid::to_string: lowercase digits, hyphenated
RECURSIVE Hyphenate(_, _, _)
Hyphenate(values, i, pos) ==
    IF pos > HyphenatedLen THEN <<>>
    ELSE IF pos \in HyphenAt THEN <<"-">> \o Hyphenate(values, i, pos + 1)
    ELSE <<HexDigits[values[i] + 1]>> \o Hyphenate(values, i + 1, pos + 1)

to_string(values) == Hyphenate(values, 1, 1)

\* the UUIDs Uuid::new_v4() may give: random, of version 4
GeneratedUuids ==
    { [i \in 1..SimpleLen |-> IF i = 13 THEN 4 ELSE IF i = 17 THEN 8 ELSE n] :
        n \in {0, 13, 15} }

\* get_uuid with a misformatted UUID passed through as it is
get_uuid_keeps_malformed(agent_uuid_config, new_v4) ==
    CASE agent_uuid_config = <<"openstack">> -> <<"openstack">>
      [] agent_uuid_config = <<"hash_ek">> -> <<"hash_ek">>
      [] agent_uuid_config = <<"generate">> -> to_string(new_v4)
      [] OTHER ->
           IF parse_str(agent_uuid_config) # None
           THEN to_string(Unwrap(parse_str(agent_uuid_config)))
           ELSE agent_uuid_config

\* get_uuid, with new_v4 the UUID that Uuid::new_v4() gives if it is called
get_uuid(agent_uuid_config, new_v4) ==
    CASE agent_uuid_config = <<"openstack">> -> <<"openstack">>
      [] agent_uuid_config = <<"hash_ek">> -> <<"hash_ek">>
      [] agent_uuid_config = <<"generate">> -> to_string(new_v4)
      [] OTHER ->
           IF parse_str(agent_uuid_config) # None
           THEN to_string(Unwrap(parse_str(agent_uuid_config)))
           ELSE to_string(new_v4)

\* Path::is_relative: the path has no root
is_relative(path) == ~(Len(path) > 0 /\ path[1] = "/")

\* Path::new(base).join(path): an absolute path replaces base, a relative one
\* is appended, after a separator if base is not empty and does not end in one
join(base, path) ==
    IF ~is_relative(path) THEN path
    ELSE IF base = <<>> \/ base[Len(base)] = "/" THEN base \o path
    ELSE base \o <<"/">> \o path

\* config_get_file_path with the keyword "default" not looked for
config_get_file_path_no_keyword(path, work_dir, default) ==
    IF path # None
    THEN LET value == Unwrap(path)
         IN  IF value = <<>> THEN None
             ELSE IF is_relative(value) THEN Some(join(work_dir, value))
             ELSE Some(value)
    ELSE None

\* config_get_file_path
config_get_file_path(path, work_dir, default) ==
    IF path # None
    THEN LET value == Unwrap(path)
         IN  IF value = <<"default">> THEN Some(join(work_dir, default))
             ELSE IF value = <<>> THEN None
             ELSE IF is_relative(value) THEN Some(join(work_dir, value))
             ELSE Some(value)
    ELSE None

\* the default file names, relative to the keylime directory
DEFAULT_AGENT_DATA_PATH == <<"agent_data.json">>

DEFAULT_SERVER_KEY == <<"server-private.pem">>

DEFAULT_SERVER_CERT == <<"server-cert.crt">>

DEFAULT_TRUSTED_CLIENT_CA == <<"cv_ca", "/", "cacert.crt">>

DEFAULT_REVOCATION_CERT == <<"RevocationNotifier-cert.crt">>

\* Result values
Ok(v) == <<"Ok", v>>

Err(e) == <<"Err", e>>

\* Error::Configuration, with the option the message names
Configuration(option) == <<"Configuration", option>>

\* Validate with the check of the mTLS certificate left out
ValidateWithoutMtls(config) ==
    IF config.enable_revocation_notifications
    THEN IF config.revocation_notification_ip = None
         THEN Some(Configuration("revocation_notification_ip"))
         ELSE IF config.revocation_notification_port = None
         THEN Some(Configuration("revocation_notification_port"))
         ELSE IF config.revocation_cert = None
         THEN Some(Configuration("revocation_notification_cert"))
         ELSE IF config.revocation_actions_dir = None
         THEN Some(Configuration("revocation_actions_dir"))
         ELSE None
    ELSE None

\* Validate with the check of the revocation certificate left out
ValidateWithoutRevocationCert(config) ==
    IF config.enable_agent_mtls /\ config.trusted_client_ca = None
    THEN Some(Configuration("trusted_client_ca"))
    ELSE IF config.enable_revocation_notifications
    THEN IF config.revocation_notification_ip = None
         THEN Some(Configuration("revocation_notification_ip"))
         ELSE IF config.revocation_notification_port = None
         THEN Some(Configuration("revocation_notification_port"))
         ELSE IF config.revocation_actions_dir = None
         THEN Some(Configuration("revocation_actions_dir"))
         ELSE None
    ELSE None

\* "Validate the configuration": the first error found in the configuration as
\* it was given, or None
Validate(config) ==
    IF config.enable_agent_mtls /\ config.trusted_client_ca = None
    THEN Some(Configuration("trusted_client_ca"))
    ELSE IF config.enable_revocation_notifications
    THEN IF config.revocation_notification_ip = None
         THEN Some(Configuration("revocation_notification_ip"))
         ELSE IF config.revocation_notification_port = None
         THEN Some(Configuration("revocation_notification_port"))
         ELSE IF config.revocation_cert = None
         THEN Some(Configuration("revocation_notification_cert"))
         ELSE IF config.revocation_actions_dir = None
         THEN Some(Configuration("revocation_actions_dir"))
         ELSE None
    ELSE None

\* an option that says "generate" is translated to None
UnlessGenerate(option) ==
    IF option # None /\ Unwrap(option) # <<"generate">> THEN option ELSE None

\* config_translate_keywords, with env_keylime_dir what env::var("KEYLIME_DIR")
\* gives and new_v4 the UUID that Uuid::new_v4() gives if it is called
config_translate_keywords(config, env_keylime_dir, new_v4) ==
    LET uuid == get_uuid(config.uuid, new_v4)
        keylime_dir ==
            IF env_keylime_dir # None /\ Unwrap(env_keylime_dir) # <<>>
            THEN Unwrap(env_keylime_dir)
            ELSE config.keylime_dir
    IN  IF Validate(config) # None
        THEN Err(Unwrap(Validate(config)))
        ELSE Ok([config EXCEPT
                   !.keylime_dir = keylime_dir,
                   !.uuid = uuid,
                   !.server_key =
                       config_get_file_path(config.server_key, keylime_dir,
                                            DEFAULT_SERVER_KEY),
                   !.server_cert =
                       config_get_file_path(config.server_cert, keylime_dir,
                                            DEFAULT_SERVER_CERT),
                   !.trusted_client_ca =
                       config_get_file_path(config.trusted_client_ca, keylime_dir,
                                            DEFAULT_TRUSTED_CLIENT_CA),
                   !.tpm_ownerpassword = UnlessGenerate(config.tpm_ownerpassword),
                   !.ek_handle = UnlessGenerate(config.ek_handle),
                   !.agent_data_path =
                       config_get_file_path(config.agent_data_path, keylime_dir,
                                            DEFAULT_AGENT_DATA_PATH),
                   !.revocation_cert =
                       config_get_file_path(config.revocation_cert, keylime_dir,
                                            <<"secure", "/", "unzipped", "/">>
                                                \o DEFAULT_REVOCATION_CERT)])

\* ------------------------------------------------- the inputs of config.rs

\* every sequence over atoms of at most n atoms
SeqsUpTo(atoms, n) == UNION {[1..k -> atoms] : k \in 0..n}

\* a hexadecimal digit in upper case, any other atom as it is
ToUpper(c) ==
    IF \E i \in 1..16 : HexDigits[i] = c
    THEN UpperHexDigits[CHOOSE i \in 1..16 : HexDigits[i] = c]
    ELSE c

ToLower(c) ==
    IF \E i \in 1..16 : UpperHexDigits[i] = c
    THEN HexDigits[CHOOSE i \in 1..16 : UpperHexDigits[i] = c]
    ELSE c

UpperCase(s) == [i \in 1..Len(s) |-> ToUpper(s[i])]

LowerCase(s) == [i \in 1..Len(s) |-> ToLower(s[i])]

\* the strings get_uuid is given: the keywords, DEFAULT_UUID in lower and in
\* upper case and in the other forms, and both with one character replaced,
\* left out or added
UuidInputs ==
    LET bases == {DEFAULT_UUID, UpperCase(DEFAULT_UUID)}
    IN  {<<"openstack">>, <<"hash_ek">>, <<"generate">>, <<>>, <<"G">>}
        \cup bases
        \cup {Without(b, HyphenAt, 1) : b \in bases}
        \cup {<<"{">> \o b \o <<"}">> : b \in bases}
        \cup {<<"urn:uuid:">> \o b : b \in bases}
        \cup {[b EXCEPT ![i] = c] :
                 b \in bases, i \in 1..HyphenatedLen, c \in {"X", "-", "F", "0"}}
        \cup {Without(b, {i}, 1) : b \in bases, i \in 1..HyphenatedLen}
        \cup {b \o <<c>> : b \in bases, c \in {"0", "X"}}

\* the paths config_get_file_path is given, with the work directories and the
\* defaults
PathInputs ==
    ({None} \cup {Some(p) : p \in SeqsUpTo({"/", "a", "default"}, MaxPathLen)})
    \X {<<>>, <<"/", "w">>, <<"/", "w", "/">>, <<"w">>}
    \X {<<"d">>, <<"c", "/", "d">>, <<"/", "d">>}

\* the values an optional path of the configuration is given
OptionalPaths ==
    {None, Some(<<>>), Some(<<"default">>), Some(<<"cert.crt">>),
     Some(<<"/", "test", "/", "cert.crt">>)}

\* the configurations config_translate_keywords is given
AgentConfigs ==
    [uuid : {<<"generate">>, <<"openstack">>, <<"hash_ek">>, <<"G">>,
             UpperCase(DEFAULT_UUID)},
     keylime_dir : {<<"/", "var", "/", "lib", "/", "keylime">>},
     agent_data_path : {Some(<<"default">>)},
     server_key : {Some(<<"default">>)},
     server_cert : {Some(<<"default">>)},
     trusted_client_ca : OptionalPaths,
     revocation_cert : OptionalPaths,
     tpm_ownerpassword : {Some(<<>>), Some(<<"generate">>)},
     ek_handle : {Some(<<"generate">>)},
     enable_agent_mtls : BOOLEAN,
     enable_revocation_notifications : BOOLEAN,
     revocation_notification_ip : {None, Some(<<"127.0.0.1">>)},
     revocation_notification_port : {None, Some(8992)},
     revocation_actions_dir : {None, Some(<<"/", "usr", "/", "libexec", "/", "keylime">>)}]

\* what env::var("KEYLIME_DIR") gives
EnvKeylimeDirs == {None, Some(<<>>), Some(<<"/", "env">>), Some(<<"env">>)}

\* no call of a function of config.rs
NoCall == [fn |-> "none", arg |-> <<>>, done |-> FALSE, result |-> <<>>]

\* the call of fn on arg, not yet made
Call(fn, arg) == [fn |-> fn, arg |-> arg, done |-> FALSE, result |-> <<>>]

Calls ==
    {Call("get_uuid", s) : s \in UuidInputs}
    \cup {Call("config_get_file_path", a) : a \in PathInputs}
    \cup {Call("config_translate_keywords", [config |-> c, env |-> e]) :
             c \in AgentConfigs, e \in EnvKeylimeDirs}

\* ---------------------------------------------------------------- the state

VARIABLES
    main_pc,          \* the step main() is at
    exit_code,        \* "running", then "Err" or "Ok"
    registered,       \* do_register_agent returned Ok
    activated,        \* do_activate_agent returned Ok
    server_started,   \* HttpServer ... .run() was called: connections are accepted
    server_done,      \* the actix_server future has resolved to Ok
    config,           \* the KeylimeConfig fields main and the worker read
    tpm_data,         \* the persisted TPM data file: None or Some TpmData record
    old_ak,           \* main's old_ak: None or the AK that load_ak gave back
    ak,               \* the AK main goes on with: None before the AK phase
    aks_created,      \* how many AKs create_ak has made in this TPM so far
    ukeys,            \* QuoteData.ukeys
    vkeys,            \* QuoteData.vkeys
    auth_tag,         \* QuoteData.auth_tag
    encr_payload,     \* QuoteData.encr_payload
    payload_symm_key, \* QuoteData.payload_symm_key: None or the derived key
    symm_lock,        \* holder of the payload_symm_key mutex: "free" or "worker"
    cv_signal,        \* a notification is pending for the waiting worker
    wpc,              \* the step the worker is at
    decrypts,         \* times the worker passed from its wait to the decrypt step
    rejects,          \* combine attempts that found no matching pair
    staging,          \* the unzipped directory: its state, the files in it, the script run
    revocation_started, \* run_revocation_service was entered
    accepted_tag,     \* history: the tag that stood when the key was derived
    submitted_tags,   \* history: the auth tags ukey submissions carried so far
    first_half,       \* history: which half was submitted first, "u" or "v"
    submissions,      \* history: the submissions, in the order the handlers took them
    tpmcontext,       \* holder of the QuoteData.tpmcontext mutex: "free" or a handler
    tpm_ops,          \* the handlers with a TPM operation in progress
    call              \* a call of a function of config.rs: its argument and result

\* the state of the agent
program_vars ==
    <<main_pc, exit_code, registered, activated, server_started, server_done,
      config, tpm_data, old_ak, ak, aks_created, ukeys, vkeys, auth_tag, encr_payload, payload_symm_key, symm_lock,
      cv_signal, wpc, decrypts, rejects, staging, revocation_started,
      submitted_tags, accepted_tag, first_half, submissions, tpmcontext, tpm_ops>>

vars == <<program_vars, call>>

ak_vars == <<tpm_data, old_ak, ak, aks_created>>

\* the TPM context as the handlers share it
tpm_vars == <<tpmcontext, tpm_ops>>

startup_vars ==
    <<main_pc, exit_code, registered, activated, server_started, server_done, config,
      ak_vars, call, tpm_vars>>

rendezvous_vars == <<ukeys, vkeys, auth_tag, encr_payload, payload_symm_key>>

worker_vars == <<symm_lock, wpc, decrypts, staging, revocation_started>>

history_vars == <<accepted_tag, submitted_tags, first_half, submissions>>

\* the history of the requests, which only SpecHistory and SpecSequence keep
request_history == <<submitted_tags, first_half, submissions>>

\* ------------------------------------------------------------------ startup

\* the fallible steps of main() in program order; the last one binds and runs
\* the HTTP server
StartupOrder ==
    <<"get_tpm2_ctx", "get_tpm_vendor", "config_build", "create_ek", "load_ak", "ak",
      "do_register_agent", "activate_credential", "do_activate_agent",
      "rsa_generate_pair", "bind_run">>

StepAfter(step) ==
    LET i == CHOOSE j \in 1..Len(StartupOrder) : StartupOrder[j] = step
    IN  IF i = Len(StartupOrder) THEN "try_join" ELSE StartupOrder[i + 1]

\* the hash and signing algorithms a configuration may name
HashAlgs == {"sha256", "sha384"}

SignAlgs == {"rsassa", "ecdsa"}

\* the configurations the release is followed under: one choice of algorithms
Configs ==
    [extract_payload_zip : BOOLEAN, payload_script : {"", "autorun.sh"},
     run_revocation : BOOLEAN, hash_alg : {"sha256"}, sign_alg : {"rsassa"}]

\* the configurations the AK phase is followed under: every choice of algorithms
AkConfigs ==
    [extract_payload_zip : {FALSE}, payload_script : {""},
     run_revocation : {FALSE}, hash_alg : HashAlgs, sign_alg : SignAlgs]

NoConfig ==
    [extract_payload_zip |-> FALSE, payload_script |-> "", run_revocation |-> FALSE,
     hash_alg |-> "none", sign_alg |-> "none"]

OldStaging ==
    [dir |-> "old", key_file |-> FALSE, payload_file |-> FALSE,
     extracted |-> FALSE, script |-> "not_run"]

\* a process that has just started: everything but the disk and the TPM
Started ==
    /\ main_pc = StartupOrder[1]
    /\ exit_code = "running"
    /\ registered = FALSE
    /\ activated = FALSE
    /\ server_started = FALSE
    /\ server_done = FALSE
    /\ config = NoConfig
    /\ old_ak = None
    /\ ak = None
    /\ ukeys = {}
    /\ vkeys = {}
    /\ auth_tag = ZeroTag
    /\ encr_payload = <<>>
    /\ payload_symm_key = None
    /\ symm_lock = "free"
    /\ cv_signal = FALSE
    /\ wpc = "not_started"
    /\ decrypts = 0
    /\ rejects = 0
    /\ staging = OldStaging
    /\ revocation_started = FALSE
    /\ submitted_tags = {}
    /\ accepted_tag = ZeroTag
    /\ first_half = "none"
    /\ submissions = <<>>
    /\ tpmcontext = "free"
    /\ tpm_ops = {}

Init ==
    /\ Started
    /\ tpm_data = None
    /\ aks_created = 0
    /\ call = NoCall

\* StepFailed with the error dropped instead of returned: main goes on
StepFailedIgnored ==
    /\ main_pc' = StepAfter(main_pc)
    /\ server_started' = (server_started \/ main_pc = "bind_run")
    /\ UNCHANGED <<exit_code, registered, activated, server_done, config, ak_vars>>

\* what a startup step that returned Err does: the ? operator returns from main
StepFailed ==
    /\ exit_code' = "Err"
    /\ UNCHANGED <<main_pc, registered, activated, server_started, server_done, config,
                   ak_vars>>

\* what a startup step that returned Ok does
StepSucceeded(cfg) ==
    /\ main_pc' = StepAfter(main_pc)
    /\ registered' = (registered \/ main_pc = "do_register_agent")
    /\ activated' = (activated \/ main_pc = "do_activate_agent")
    /\ server_started' = (server_started \/ main_pc = "bind_run")
    /\ config' = IF main_pc = "config_build" THEN cfg ELSE config
    /\ UNCHANGED <<exit_code, server_done, ak_vars>>

\* one step of main() before try_join!, the AK phase apart, with the
\* configuration that KeylimeConfig::build() returns drawn from cfgs
StartupStepWith(cfgs) ==
    /\ exit_code = "running"
    /\ main_pc \notin {"load_ak", "ak", "try_join"}
    /\ \E ok \in BOOLEAN, cfg \in cfgs :
          IF ok THEN StepSucceeded(cfg) ELSE StepFailed
    /\ UNCHANGED <<rendezvous_vars, worker_vars, cv_signal, rejects, history_vars, call, tpm_vars>>

StartupStep == StartupStepWith(Configs)

\* TpmData::valid: the record was made under these two algorithms
valid(data, hash_alg, sign_alg) ==
    data.ak_hash_alg = hash_alg /\ data.ak_sign_alg = sign_alg

\* the persisted record, kept only if it is valid with the configuration
ValidTpmData ==
    IF tpm_data # None /\ valid(Unwrap(tpm_data), config.hash_alg, config.sign_alg)
    THEN tpm_data
    ELSE None

\* LoadOldAk with the validity of the record not looked at
LoadOldAkUnchecked ==
    /\ exit_code = "running"
    /\ main_pc = "load_ak"
    /\ IF tpm_data # None
       THEN \E accepted \in BOOLEAN :
               old_ak' = IF accepted THEN Some(Unwrap(tpm_data).ak_context) ELSE None
       ELSE old_ak' = None
    /\ main_pc' = StepAfter(main_pc)
    /\ UNCHANGED <<exit_code, registered, activated, server_started, server_done,
                   config, tpm_data, ak, aks_created>>
    /\ UNCHANGED <<rendezvous_vars, worker_vars, cv_signal, rejects, history_vars, call, tpm_vars>>

\* the persisted record is dropped unless valid, then tpm::load_ak gives the
\* old AK back or the TPM rejects its context: either way main goes on
LoadOldAk ==
    /\ exit_code = "running"
    /\ main_pc = "load_ak"
    /\ IF ValidTpmData # None
       THEN \E accepted \in BOOLEAN :
               old_ak' = IF accepted THEN Some(Unwrap(tpm_data).ak_context) ELSE None
       ELSE old_ak' = None
    /\ main_pc' = StepAfter(main_pc)
    /\ UNCHANGED <<exit_code, registered, activated, server_started, server_done,
                   config, tpm_data, ak, aks_created>>
    /\ UNCHANGED <<rendezvous_vars, worker_vars, cv_signal, rejects, history_vars, call, tpm_vars>>

\* what generating and storing a new AK can come to
AkOutcomes == {"create_ak_failed", "store_ak_failed", "store_failed", "ok"}

\* the record main stores for the AK numbered n
NewTpmData(n) ==
    Some([ak_hash_alg |-> config.hash_alg, ak_sign_alg |-> config.sign_alg,
          ak_context |-> n])

\* GenerateNewAk with the new AK used and its TPM data never stored
GenerateNewAkUnstored(outcome) ==
    /\ outcome = "ok"
    /\ aks_created < MaxAks
    /\ aks_created' = aks_created + 1
    /\ ak' = Some(aks_created + 1)
    /\ main_pc' = StepAfter(main_pc)
    /\ UNCHANGED <<exit_code, tpm_data>>

\* the None arm of match old_ak: create_ak?, store_ak?, TpmData{..}.store()?; a
\* store that failed left the file as it was or unreadable
GenerateNewAk(outcome) ==
    LET n == aks_created + 1
    IN  CASE outcome = "create_ak_failed" ->
               /\ exit_code' = "Err"
               /\ UNCHANGED <<main_pc, tpm_data, ak, aks_created>>
          [] outcome = "store_ak_failed" ->
               /\ aks_created < MaxAks
               /\ aks_created' = n
               /\ exit_code' = "Err"
               /\ UNCHANGED <<main_pc, tpm_data, ak>>
          [] outcome = "store_failed" ->
               /\ aks_created < MaxAks
               /\ aks_created' = n
               /\ exit_code' = "Err"
               /\ tpm_data' \in {tpm_data, None}
               /\ UNCHANGED <<main_pc, ak>>
          [] outcome = "ok" ->
               /\ aks_created < MaxAks
               /\ aks_created' = n
               /\ tpm_data' = NewTpmData(n)
               /\ ak' = Some(n)
               /\ main_pc' = StepAfter(main_pc)
               /\ UNCHANGED exit_code

\* UseOrCreateAk with a failed load_ak fatal: no new AK is generated
UseOrCreateAkNoRecovery ==
    /\ exit_code = "running"
    /\ main_pc = "ak"
    /\ IF old_ak # None
       THEN /\ ak' = old_ak
            /\ main_pc' = StepAfter(main_pc)
            /\ UNCHANGED <<exit_code, tpm_data, aks_created>>
       ELSE IF ValidTpmData # None
            THEN GenerateNewAk("create_ak_failed")
            ELSE \E outcome \in AkOutcomes : GenerateNewAk(outcome)
    /\ UNCHANGED <<registered, activated, server_started, server_done, config, old_ak>>
    /\ UNCHANGED <<rendezvous_vars, worker_vars, cv_signal, rejects, history_vars, call, tpm_vars>>

\* match old_ak: the old AK is used as it is, or a new one generated and stored
UseOrCreateAk ==
    /\ exit_code = "running"
    /\ main_pc = "ak"
    /\ IF old_ak # None
       THEN /\ ak' = old_ak
            /\ main_pc' = StepAfter(main_pc)
            /\ UNCHANGED <<exit_code, tpm_data, aks_created>>
       ELSE \E outcome \in AkOutcomes : GenerateNewAk(outcome)
    /\ UNCHANGED <<registered, activated, server_started, server_done, config, old_ak>>
    /\ UNCHANGED <<rendezvous_vars, worker_vars, cv_signal, rejects, history_vars, call, tpm_vars>>

\* --------------------------------------------- key rendezvous (the handlers)

\* the server's threads take requests from run() on, until the server stops or
\* the process exits
Serving == server_started /\ ~server_done /\ exit_code = "running"

\* the candidate keys of the (u, v) pairs whose tag is the submitted one
Matching(us, vs, tag) ==
    {Xor(u, v) : <<u, v>> \in
        {p \in us \X vs : CanXor(p[1], p[2])
                          /\ ExpectedTag(Xor(p[1], p[2]), AgentUuid) = tag}}

\* combine, steps 1 and 2: nothing to try
CombineIdle(us, vs, tag, payload) ==
    \/ payload_symm_key # None
    \/ ~(\E u \in us, v \in vs : CanXor(u, v))
    \/ tag = ZeroTag
    \/ payload = <<>>

\* combine on the rendezvous holding us, vs, tag and payload
Combine(us, vs, tag, payload) ==
    IF CombineIdle(us, vs, tag, payload)
    THEN /\ auth_tag' = tag
         /\ UNCHANGED <<payload_symm_key, cv_signal, rejects, accepted_tag>>
    ELSE IF Matching(us, vs, tag) # {}
    THEN /\ \E candidate \in Matching(us, vs, tag) :
                payload_symm_key' = Some(candidate)
         /\ auth_tag' = tag
         /\ accepted_tag' = tag
         /\ cv_signal' = (wpc = "waiting")
         /\ UNCHANGED rejects
    ELSE /\ rejects < MaxRejects
         /\ auth_tag' = ZeroTag
         /\ rejects' = rejects + 1
         /\ UNCHANGED <<payload_symm_key, cv_signal, accepted_tag>>

\* POST /keys/ukey with a well-formed body: u, and optionally a payload and a tag
u_key(u, payload, tag) ==
    /\ Serving
    /\ symm_lock = "free"
    /\ ukeys' = ukeys \cup {u}
    /\ encr_payload' =
          IF payload # Absent /\ encr_payload = <<>> THEN payload ELSE encr_payload
    /\ Combine(ukeys', vkeys, IF tag # Absent THEN tag ELSE auth_tag, encr_payload')
    /\ UNCHANGED <<startup_vars, vkeys, worker_vars>>

\* POST /keys/vkey with a well-formed body: v
v_key(v) ==
    /\ Serving
    /\ symm_lock = "free"
    /\ vkeys' = vkeys \cup {v}
    /\ Combine(ukeys, vkeys', auth_tag, encr_payload)
    /\ UNCHANGED <<startup_vars, ukeys, encr_payload, worker_vars>>

\* ------------------------------------------------- quotes (the handlers)

\* the routes of the server whose handlers use the TPM
QuoteHandlers == {"identity", "integrity"}

\* the steps of main that use the TPM context, still a local of main
TpmSteps ==
    {"get_tpm2_ctx", "get_tpm_vendor", "create_ek", "load_ak", "ak",
     "activate_credential"}

\* TpmContextFree with the context shared as it is, with no Mutex around it
TpmContextUnguarded == TRUE

\* QuoteData.tpmcontext is a Mutex<Context>: lock() returns when nobody holds it
TpmContextFree == tpmcontext = "free"

\* a request for a quote has come in and its handler takes the TPM context
QuoteLock(h) ==
    /\ Serving
    /\ tpmcontext # h
    /\ h \notin tpm_ops
    /\ TpmContextFree
    /\ tpmcontext' = h
    /\ UNCHANGED <<main_pc, exit_code, registered, activated, server_started,
                   server_done, config, ak_vars, call, tpm_ops, rendezvous_vars,
                   worker_vars, cv_signal, rejects, history_vars>>

\* the handler, with the guard in hand, starts an operation on the context
QuoteTpmBegin(h) ==
    /\ server_started
    /\ exit_code = "running"
    /\ tpmcontext = h
    /\ h \notin tpm_ops
    /\ tpm_ops' = tpm_ops \cup {h}
    /\ UNCHANGED <<main_pc, exit_code, registered, activated, server_started,
                   server_done, config, ak_vars, call, tpmcontext, rendezvous_vars,
                   worker_vars, cv_signal, rejects, history_vars>>

\* the operation returns
QuoteTpmEnd(h) ==
    /\ server_started
    /\ exit_code = "running"
    /\ h \in tpm_ops
    /\ tpm_ops' = tpm_ops \ {h}
    /\ UNCHANGED <<main_pc, exit_code, registered, activated, server_started,
                   server_done, config, ak_vars, call, tpmcontext, rendezvous_vars,
                   worker_vars, cv_signal, rejects, history_vars>>

\* the handler returns and its guard is dropped
QuoteUnlock(h) ==
    /\ server_started
    /\ exit_code = "running"
    /\ tpmcontext = h
    /\ h \notin tpm_ops
    /\ tpmcontext' = "free"
    /\ UNCHANGED <<main_pc, exit_code, registered, activated, server_started,
                   server_done, config, ak_vars, call, tpm_ops, rendezvous_vars,
                   worker_vars, cv_signal, rejects, history_vars>>

\* ------------------------------------------------------------------- worker

\* the worker runs from try_join! on, until the process exits
WorkerRuns == main_pc = "try_join" /\ exit_code = "running"

\* ReturnErr with the error of run_encrypted_payload dropped by worker, which
\* goes on as after Ok
ReturnErrSwallowed ==
    /\ wpc' = "returned_ok"
    /\ symm_lock' = "free"

\* an error return from run_encrypted_payload: the guard is dropped, and the ?
\* in worker returns the error too
ReturnErr ==
    /\ wpc' = "failed"
    /\ symm_lock' = "free"

\* ReturnOk inside a loop that goes back to waiting for the next key
ReturnOkLoops ==
    /\ wpc' = "not_started"
    /\ symm_lock' = "free"

\* Ok(()) at the end of run_encrypted_payload: the guard is dropped
ReturnOk ==
    /\ wpc' = "returned_ok"
    /\ symm_lock' = "free"

\* WorkerLock with the wait entered before the key is looked at
WorkerLockWaitsFirst ==
    /\ WorkerRuns
    /\ wpc = "not_started"
    /\ symm_lock = "free"
    /\ wpc' = "waiting"
    /\ UNCHANGED <<startup_vars, rendezvous_vars, symm_lock, cv_signal, decrypts,
                   rejects, staging, revocation_started, history_vars>>

\* symm_key.lock()
WorkerLock ==
    /\ WorkerRuns
    /\ wpc = "not_started"
    /\ symm_lock = "free"
    /\ symm_lock' = "worker"
    /\ wpc' = "check"
    /\ UNCHANGED <<startup_vars, rendezvous_vars, cv_signal, decrypts, rejects,
                   staging, revocation_started, history_vars>>

\* WorkerCheck with key.take() for key.as_ref(): the worker empties the slot
WorkerCheckTakesKey ==
    /\ WorkerRuns
    /\ wpc = "check"
    /\ IF payload_symm_key = None
       THEN /\ wpc' = "waiting"
            /\ symm_lock' = "free"
            /\ UNCHANGED <<decrypts, payload_symm_key>>
       ELSE /\ wpc' = "decrypt_payload"
            /\ decrypts' = decrypts + 1
            /\ payload_symm_key' = None
            /\ UNCHANGED symm_lock
    /\ UNCHANGED <<startup_vars, ukeys, vkeys, auth_tag, encr_payload, cv_signal,
                   rejects, staging, revocation_started, history_vars>>

\* WorkerCheck with the loop left out: the worker never waits
WorkerCheckNeverWaits ==
    /\ WorkerRuns
    /\ wpc = "check"
    /\ wpc' = "decrypt_payload"
    /\ decrypts' = decrypts + 1
    /\ UNCHANGED <<startup_vars, rendezvous_vars, symm_lock, cv_signal, rejects,
                   staging, revocation_started, history_vars>>

\* while key.is_none() { key = cvar.wait(key) }: wait gives the mutex up
WorkerCheck ==
    /\ WorkerRuns
    /\ wpc = "check"
    /\ IF payload_symm_key = None
       THEN /\ wpc' = "waiting"
            /\ symm_lock' = "free"
            /\ UNCHANGED decrypts
       ELSE /\ wpc' = "decrypt_payload"
            /\ decrypts' = decrypts + 1
            /\ UNCHANGED symm_lock
    /\ UNCHANGED <<startup_vars, rendezvous_vars, cv_signal, rejects, staging,
                   revocation_started, history_vars>>

\* cvar.wait returns after a notification, with the mutex taken again
WorkerWakeNotified ==
    /\ WorkerRuns
    /\ wpc = "waiting"
    /\ cv_signal
    /\ symm_lock = "free"
    /\ symm_lock' = "worker"
    /\ cv_signal' = FALSE
    /\ wpc' = "check"
    /\ UNCHANGED <<startup_vars, rendezvous_vars, decrypts, rejects, staging,
                   revocation_started, history_vars>>

\* WorkerWakeSpurious with if for while: the key is not looked at again
WorkerWakeSpuriousNoRecheck ==
    /\ WorkerRuns
    /\ wpc = "waiting"
    /\ ~cv_signal
    /\ symm_lock = "free"
    /\ symm_lock' = "worker"
    /\ wpc' = "decrypt_payload"
    /\ decrypts' = decrypts + 1
    /\ UNCHANGED <<startup_vars, rendezvous_vars, cv_signal, rejects, staging,
                   revocation_started, history_vars>>

\* cvar.wait may also return with no notification (a spurious wake-up)
WorkerWakeSpurious ==
    /\ WorkerRuns
    /\ wpc = "waiting"
    /\ ~cv_signal
    /\ symm_lock = "free"
    /\ symm_lock' = "worker"
    /\ wpc' = "check"
    /\ UNCHANGED <<startup_vars, rendezvous_vars, cv_signal, decrypts, rejects,
                   staging, revocation_started, history_vars>>

\* WorkerDecrypt with the result of decrypt_payload not looked at
WorkerDecryptIgnoresError ==
    /\ WorkerRuns
    /\ wpc = "decrypt_payload"
    /\ wpc' = "setup_unzipped"
    /\ UNCHANGED <<startup_vars, rendezvous_vars, symm_lock, cv_signal, decrypts,
                   rejects, staging, revocation_started, history_vars>>

\* decrypt_payload(payload, key)?
WorkerDecrypt ==
    /\ WorkerRuns
    /\ wpc = "decrypt_payload"
    /\ IF decrypt_aead(Unwrap(payload_symm_key), encr_payload) = None
       THEN ReturnErr
       ELSE wpc' = "setup_unzipped" /\ UNCHANGED symm_lock
    /\ UNCHANGED <<startup_vars, rendezvous_vars, cv_signal, decrypts, rejects,
                   staging, revocation_started, history_vars>>

\* setup_unzipped(config)?: mount, remove the old directory, create it anew
WorkerSetupUnzipped ==
    /\ WorkerRuns
    /\ wpc = "setup_unzipped"
    /\ \E outcome \in {"mount_failed", "remove_failed", "create_failed", "ok"} :
          CASE outcome = "ok" ->
                 /\ staging' = [staging EXCEPT !.dir = "fresh"]
                 /\ wpc' = "write_out_key_and_payload"
                 /\ UNCHANGED symm_lock
            [] outcome = "create_failed" ->
                 /\ staging' = [staging EXCEPT !.dir = "absent"]
                 /\ ReturnErr
            [] OTHER ->
                 /\ UNCHANGED staging
                 /\ ReturnErr
    /\ UNCHANGED <<startup_vars, rendezvous_vars, cv_signal, decrypts, rejects,
                   revocation_started, history_vars>>

\* WorkerWriteOut with the result of write_out_key_and_payload not looked at
WorkerWriteOutIgnoresError ==
    /\ WorkerRuns
    /\ wpc = "write_out_key_and_payload"
    /\ \E written \in BOOLEAN :
          staging' = [staging EXCEPT !.key_file = written, !.payload_file = written]
    /\ wpc' = "optional_unzip_payload"
    /\ UNCHANGED <<startup_vars, rendezvous_vars, symm_lock, cv_signal, decrypts,
                   rejects, revocation_started, history_vars>>

\* write_out_key_and_payload(...)?: the key file first, then the payload file
WorkerWriteOut ==
    /\ WorkerRuns
    /\ wpc = "write_out_key_and_payload"
    /\ \E outcome \in {"key_create_failed", "key_write_failed",
                        "payload_create_failed", "payload_write_failed", "ok"} :
          CASE outcome = "ok" ->
                 /\ staging' = [staging EXCEPT !.key_file = TRUE, !.payload_file = TRUE]
                 /\ wpc' = "optional_unzip_payload"
                 /\ UNCHANGED symm_lock
            [] outcome = "payload_write_failed" ->
                 /\ staging' = [staging EXCEPT !.key_file = TRUE, !.payload_file = TRUE]
                 /\ ReturnErr
            [] outcome \in {"key_write_failed", "payload_create_failed"} ->
                 /\ staging' = [staging EXCEPT !.key_file = TRUE]
                 /\ ReturnErr
            [] OTHER ->
                 /\ UNCHANGED staging
                 /\ ReturnErr
    /\ UNCHANGED <<startup_vars, rendezvous_vars, cv_signal, decrypts, rejects,
                   revocation_started, history_vars>>

\* optional_unzip_payload(&unzipped, config)?
WorkerUnzip ==
    /\ WorkerRuns
    /\ wpc = "optional_unzip_payload"
    /\ IF config.extract_payload_zip
       THEN \E ok \in BOOLEAN :
               IF ok
               THEN /\ staging' = [staging EXCEPT !.extracted = TRUE]
                    /\ wpc' = "payload_script"
                    /\ UNCHANGED symm_lock
               ELSE /\ UNCHANGED staging
                    /\ ReturnErr
       ELSE /\ wpc' = "payload_script"
            /\ UNCHANGED <<staging, symm_lock>>
    /\ UNCHANGED <<startup_vars, rendezvous_vars, cv_signal, decrypts, rejects,
                   revocation_started, history_vars>>

\* what run(dir, script, uuid) can come to
RunOutcomes == {"not_found", "chmod_failed", "spawn_failed", "exit_zero", "exit_nonzero"}

\* RunOk with a non-zero exit status made an error
RunOkZeroOnly(outcome) == outcome = "exit_zero"

\* run returns Ok whenever the shell was started, whatever its exit status
RunOk(outcome) == outcome \in {"exit_zero", "exit_nonzero"}

\* match config.payload_script { "" => skip, script => run(...)? }, then Ok(())
WorkerScript ==
    /\ WorkerRuns
    /\ wpc = "payload_script"
    /\ IF config.payload_script = ""
       THEN /\ ReturnOk
            /\ UNCHANGED staging
       ELSE \E outcome \in RunOutcomes :
               /\ staging' = [staging EXCEPT !.script = outcome]
               /\ IF RunOk(outcome)
                  THEN ReturnOk
                  ELSE ReturnErr
    /\ UNCHANGED <<startup_vars, rendezvous_vars, cv_signal, decrypts, rejects,
                   revocation_started, history_vars>>

\* worker, after run_encrypted_payload returned Ok
WorkerRevocation ==
    /\ WorkerRuns
    /\ wpc = "returned_ok"
    /\ IF config.run_revocation
       THEN wpc' = "run_revocation_service" /\ revocation_started' = TRUE
       ELSE wpc' = "done" /\ UNCHANGED revocation_started
    /\ UNCHANGED <<startup_vars, rendezvous_vars, symm_lock, cv_signal, decrypts,
                   rejects, staging, history_vars>>

\* return revocation::run_revocation_service(config).await: the worker's
\* result is the service's, whenever the service returns
RevocationServiceReturns ==
    /\ WorkerRuns
    /\ wpc = "run_revocation_service"
    /\ \E ok \in BOOLEAN : wpc' = IF ok THEN "done" ELSE "failed"
    /\ UNCHANGED <<startup_vars, rendezvous_vars, symm_lock, cv_signal, decrypts,
                   rejects, staging, revocation_started, history_vars>>

\* the worker future has resolved to Ok
WorkerOk == wpc = "done"

\* JoinWorkerErr with the worker's error logged and dropped: the task is over
\* and main stays in the join
JoinWorkerErrLogged ==
    /\ WorkerRuns
    /\ wpc = "failed"
    /\ wpc' = "done"
    /\ UNCHANGED <<startup_vars, rendezvous_vars, symm_lock, cv_signal, decrypts,
                   rejects, staging, revocation_started, history_vars>>

\* try_join!(worker, actix_server)?: the worker's error ends main with it
JoinWorkerErr ==
    /\ WorkerRuns
    /\ wpc = "failed"
    /\ exit_code' = "Err"
    /\ UNCHANGED <<main_pc, registered, activated, server_started, server_done,
                   config, ak_vars, rendezvous_vars, worker_vars, cv_signal, rejects,
                   history_vars, call, tpm_vars>>

\* the actix_server future resolves: Ok after a graceful shutdown, which the
\* join keeps until the worker is done too, or Err, which ends main with it
ServerStops ==
    /\ WorkerRuns
    /\ Serving
    /\ \E ok \in BOOLEAN :
          IF ok
          THEN server_done' = TRUE /\ UNCHANGED exit_code
          ELSE exit_code' = "Err" /\ UNCHANGED server_done
    /\ UNCHANGED <<main_pc, registered, activated, server_started, config, ak_vars,
                   rendezvous_vars, worker_vars, cv_signal, rejects, history_vars,
                   call, tpm_vars>>

\* JoinBothOk as a select: the join is over as soon as one future is Ok
JoinEitherOk ==
    /\ WorkerRuns
    /\ WorkerOk \/ server_done
    /\ exit_code' = "Ok"
    /\ UNCHANGED <<main_pc, registered, activated, server_started, server_done,
                   config, ak_vars, rendezvous_vars, worker_vars, cv_signal, rejects,
                   history_vars, call, tpm_vars>>

\* try_join! resolves to Ok when both futures have, and main returns Ok(())
JoinBothOk ==
    /\ WorkerRuns
    /\ WorkerOk
    /\ server_done
    /\ exit_code' = "Ok"
    /\ UNCHANGED <<main_pc, registered, activated, server_started, server_done,
                   config, ak_vars, rendezvous_vars, worker_vars, cv_signal, rejects,
                   history_vars, call, tpm_vars>>

\* ------------------------------------------------------------ specification

\* the history of a ukey request
RecordUKey(tag) ==
    /\ submitted_tags' = IF tag # Absent THEN submitted_tags \cup {tag} ELSE submitted_tags
    /\ first_half' = IF first_half = "none" THEN "u" ELSE first_half
    /\ UNCHANGED submissions

\* the history of a vkey request
RecordVKey ==
    /\ first_half' = IF first_half = "none" THEN "v" ELSE first_half
    /\ UNCHANGED <<submitted_tags, submissions>>

Next ==
    \/ StartupStep
    \/ LoadOldAk
    \/ UseOrCreateAk
    \/ \E u \in UKeys, payload \in Payloads \cup {Absent}, tag \in Tags \cup {Absent} :
          u_key(u, payload, tag) /\ UNCHANGED request_history
    \/ \E v \in VKeys : v_key(v) /\ UNCHANGED request_history
    \/ WorkerLock
    \/ WorkerCheck
    \/ WorkerWakeNotified
    \/ WorkerWakeSpurious
    \/ WorkerDecrypt
    \/ WorkerSetupUnzipped
    \/ WorkerWriteOut
    \/ WorkerUnzip
    \/ WorkerScript
    \/ WorkerRevocation
    \/ RevocationServiceReturns
    \/ JoinWorkerErr
    \/ ServerStops
    \/ JoinBothOk

Spec == Init /\ [][Next]_vars

\* the same steps, with the history of the requests kept
NextHistory ==
    \/ StartupStep
    \/ LoadOldAk
    \/ UseOrCreateAk
    \/ \E u \in UKeys, payload \in Payloads \cup {Absent}, tag \in Tags \cup {Absent} :
          u_key(u, payload, tag) /\ RecordUKey(tag)
    \/ \E v \in VKeys : v_key(v) /\ RecordVKey
    \/ WorkerLock
    \/ WorkerCheck
    \/ WorkerWakeNotified
    \/ WorkerWakeSpurious
    \/ WorkerDecrypt
    \/ WorkerSetupUnzipped
    \/ WorkerWriteOut
    \/ WorkerUnzip
    \/ WorkerScript
    \/ WorkerRevocation
    \/ RevocationServiceReturns
    \/ JoinWorkerErr
    \/ ServerStops
    \/ JoinBothOk

SpecHistory == Init /\ [][NextHistory]_vars

\* the agent is stopped at any point and started again: the TPM data file and
\* the TPM outlive the process
Restart ==
    /\ main_pc # StartupOrder[1]
    /\ main_pc' = StartupOrder[1]
    /\ exit_code' = "running"
    /\ registered' = FALSE
    /\ activated' = FALSE
    /\ server_started' = FALSE
    /\ server_done' = FALSE
    /\ config' = NoConfig
    /\ old_ak' = None
    /\ ak' = None
    /\ ukeys' = {}
    /\ vkeys' = {}
    /\ auth_tag' = ZeroTag
    /\ encr_payload' = <<>>
    /\ payload_symm_key' = None
    /\ symm_lock' = "free"
    /\ cv_signal' = FALSE
    /\ wpc' = "not_started"
    /\ decrypts' = 0
    /\ rejects' = 0
    /\ staging' = OldStaging
    /\ revocation_started' = FALSE
    /\ submitted_tags' = {}
    /\ accepted_tag' = ZeroTag
    /\ first_half' = "none"
    /\ submissions' = <<>>
    /\ tpmcontext' = "free"
    /\ tpm_ops' = {}
    /\ UNCHANGED <<tpm_data, aks_created, call>>

\* startup alone, over restarts and every choice of algorithms
NextAk ==
    \/ StartupStepWith(AkConfigs)
    \/ LoadOldAk
    \/ UseOrCreateAk
    \/ Restart

SpecAk == Init /\ [][NextAk]_vars

\* a ukey submission and a vkey submission, as the history keeps them
USubmission(u, payload, tag) ==
    [kind |-> "u", half |-> u, payload |-> payload, tag |-> tag]

VSubmission(v) == [kind |-> "v", half |-> v, payload |-> Absent, tag |-> Absent]

\* the history of a request, kept in the order the handlers take the requests
RecordSubmission(s) ==
    /\ Len(submissions) < MaxSubmissions
    /\ submissions' = Append(submissions, s)
    /\ UNCHANGED <<submitted_tags, first_half>>

\* the configuration the sequences of submissions are followed under: the
\* release is not part of them
SequenceConfigs ==
    {c \in Configs : ~c.extract_payload_zip /\ c.payload_script = "" /\ ~c.run_revocation}

\* the payload and the tags the sequences of submissions are made of
SequencePayloads == {Encrypt(<<1>>, <<"ok">>)}

SequenceTags == {ExpectedTag(<<1>>, AgentUuid), ExpectedTag(<<0, 0>>, AgentUuid)}

\* startup, the handlers with the sequence of their submissions kept, and the
\* worker up to its wake-up
NextSequence ==
    \/ StartupStepWith(SequenceConfigs)
    \/ LoadOldAk
    \/ UseOrCreateAk
    \/ \E u \in UKeys, payload \in SequencePayloads \cup {Absent},
          tag \in SequenceTags \cup {Absent} :
          u_key(u, payload, tag) /\ RecordSubmission(USubmission(u, payload, tag))
    \/ \E v \in VKeys : v_key(v) /\ RecordSubmission(VSubmission(v))
    \/ WorkerLock
    \/ WorkerCheck
    \/ WorkerWakeNotified
    \/ WorkerWakeSpurious

SpecSequence == Init /\ [][NextSequence]_vars

\* startup and the server's quote handlers, with every use of the TPM context
NextTpm ==
    \/ StartupStep
    \/ LoadOldAk
    \/ UseOrCreateAk
    \/ \E h \in QuoteHandlers : QuoteLock(h)
    \/ \E h \in QuoteHandlers : QuoteTpmBegin(h)
    \/ \E h \in QuoteHandlers : QuoteTpmEnd(h)
    \/ \E h \in QuoteHandlers : QuoteUnlock(h)
    \/ ServerStops

SpecTpm == Init /\ [][NextTpm]_vars

\* a call of get_uuid is made
ApplyGetUuid ==
    /\ call.fn = "get_uuid"
    /\ ~call.done
    /\ \E new_v4 \in GeneratedUuids :
          call' = [call EXCEPT !.done = TRUE, !.result = get_uuid(call.arg, new_v4)]
    /\ UNCHANGED program_vars

\* a call of config_get_file_path is made
ApplyConfigGetFilePath ==
    /\ call.fn = "config_get_file_path"
    /\ ~call.done
    /\ call' = [call EXCEPT
                  !.done = TRUE,
                  !.result = config_get_file_path(call.arg[1], call.arg[2], call.arg[3])]
    /\ UNCHANGED program_vars

\* a call of config_translate_keywords is made
ApplyConfigTranslateKeywords ==
    /\ call.fn = "config_translate_keywords"
    /\ ~call.done
    /\ \E new_v4 \in GeneratedUuids :
          call' = [call EXCEPT
                     !.done = TRUE,
                     !.result = config_translate_keywords(call.arg.config,
                                                          call.arg.env, new_v4)]
    /\ UNCHANGED program_vars

\* the functions of config.rs, each called once on an input of its own
InitConfig ==
    /\ Started
    /\ tpm_data = None
    /\ aks_created = 0
    /\ call \in Calls

NextConfig ==
    \/ ApplyGetUuid
    \/ ApplyConfigGetFilePath
    \/ ApplyConfigTranslateKeywords

SpecConfig == InitConfig /\ [][NextConfig]_vars

\* the worker's thread is scheduled, and a notified wait returns; a wait that
\* was not notified need never return
FairSpec ==
    /\ Spec
    /\ WF_vars(WorkerLock)
    /\ WF_vars(WorkerCheck)
    /\ WF_vars(WorkerWakeNotified)

\* and main returns from try_join! as soon as the join has resolved
FairJoinSpec ==
    /\ FairSpec
    /\ WF_vars(JoinWorkerErr)
    /\ WF_vars(JoinBothOk)

\* ------------------------------------------------------------------- claims

\* main has returned: the process is over, and the worker with it
ProcessEnded == exit_code # "running"

\* the worker is past its wait: at the decrypt step or beyond it
PastWait ==
    wpc \notin {"not_started", "check", "waiting"}

\* a recorded pair of equal length whose XOR is the candidate key k
RecordedPair(k) ==
    \E u \in ukeys, v \in vkeys : CanXor(u, v) /\ Xor(u, v) = k

\* C1: once derived_symm_key is Some it keeps its value for the rest of the
\* process: no step changes it or sets it back to None.
C1_KeySetOnce ==
    [][payload_symm_key # None => payload_symm_key' = payload_symm_key]_vars

\* C1 witness: the key for <<1>> is derived, and a later ukey submission with
\* the verifying tag of another recorded pair has left it as it was.
C1_Witness ==
    /\ payload_symm_key = Some(<<1>>)
    /\ auth_tag = ExpectedTag(<<0, 0>>, AgentUuid)
    /\ RecordedPair(<<0, 0>>)
    /\ PastWait

\* C2: the worker passes from its wait to the decrypt step at most once, and
\* once the key is derived it does pass, however many combine attempts failed
\* before, unless the process ends first.
C2_OneWakeUp ==
    /\ [](decrypts <= 1)
    /\ (payload_symm_key # None) ~> (decrypts = 1 \/ ProcessEnded)

\* C2 witness: the worker has finished its release steps after one pass, the
\* key having been derived after two rejected attempts, and the rendezvous
\* has taken a further submission since.
C2_Witness ==
    /\ decrypts = 1
    /\ rejects >= 2
    /\ wpc \in {"returned_ok", "done", "run_revocation_service"}
    /\ auth_tag # accepted_tag

\* C3: whenever the worker is past its wait, the rendezvous holds a U half and
\* a V half of equal length and a nonempty ciphertext, the derived key is
\* their XOR, the tag that stood at derivation is the expected tag of that
\* XOR for this agent, and the payload was handed to decryption once.
C3_DecryptOnlyVerified ==
    PastWait =>
        /\ encr_payload # <<>>
        /\ decrypts = 1
        /\ \E u \in ukeys, v \in vkeys :
              /\ CanXor(u, v)
              /\ payload_symm_key = Some(Xor(u, v))
              /\ ExpectedTag(Xor(u, v), AgentUuid) = accepted_tag

\* C3 witness: the worker decrypts with the two-byte key while a pair of
\* unequal length is recorded too.
C3_Witness ==
    /\ wpc = "decrypt_payload"
    /\ payload_symm_key = Some(<<0, 0>>)
    /\ <<1>> \in ukeys

\* C4: as long as no ukey submission carried an auth tag, no key is derived,
\* the tag buffer is unset and the worker has not left its wait.
C4_NoTagNoWake ==
    submitted_tags = {} =>
        /\ payload_symm_key = None
        /\ auth_tag = ZeroTag
        /\ ~PastWait

\* C4 witness: both halves of a pair and a payload are recorded, no tag was
\* ever submitted, and the worker waits.
C4_Witness ==
    /\ submitted_tags = {}
    /\ RecordedPair(<<1>>)
    /\ RecordedPair(<<0, 0>>)
    /\ encr_payload # <<>>
    /\ wpc = "waiting"

\* a submitted tag verifies for a recorded pair
SomeTagVerifies ==
    \E t \in submitted_tags, u \in ukeys, v \in vkeys :
        CanXor(u, v) /\ ExpectedTag(Xor(u, v), AgentUuid) = t

\* C5: as long as no submitted tag verifies for any recorded pair, no key is
\* derived and the worker has not left its wait.
C5_BadTagNoWake ==
    ~SomeTagVerifies => (payload_symm_key = None /\ ~PastWait)

\* C5 witness: a pair and a payload are recorded, tags were submitted and
\* rejected, none verifies, and the worker waits.
C5_Witness ==
    /\ ~SomeTagVerifies
    /\ submitted_tags # {}
    /\ RecordedPair(<<1>>)
    /\ encr_payload # <<>>
    /\ rejects >= 1
    /\ wpc = "waiting"

\* the rendezvous holds a pair of equal length, a payload and that pair's tag
Complete ==
    /\ encr_payload # <<>>
    /\ \E u \in ukeys, v \in vkeys :
          CanXor(u, v) /\ ExpectedTag(Xor(u, v), AgentUuid) = auth_tag

\* C6: once the accepted submissions have made the rendezvous complete, the
\* worker reaches the decrypt step, whether the key was derived before the
\* worker began to wait or after, unless the process ends first.
C6_NoLostWakeUp ==
    Complete ~> (PastWait \/ ProcessEnded)

\* C6 witness: the key was derived before the worker took the mutex for the
\* first time, so no notification reached it.
C6_Witness ==
    /\ Complete
    /\ payload_symm_key # None
    /\ wpc = "not_started"
    /\ ~cv_signal

\* combine, run on the rendezvous holding us, vs, tag and payload, finds both
\* halves, a payload and a tag, and the tag matches no pair
RejectCase(us, vs, tag, payload) ==
    /\ payload_symm_key = None
    /\ \E u \in us, v \in vs : CanXor(u, v)
    /\ tag # ZeroTag
    /\ payload # <<>>
    /\ \A u \in us, v \in vs :
          CanXor(u, v) => ExpectedTag(Xor(u, v), AgentUuid) # tag

\* what a rejecting combine leaves behind
Rejected ==
    /\ auth_tag' = ZeroTag
    /\ ukeys \subseteq ukeys'
    /\ vkeys \subseteq vkeys'
    /\ payload_symm_key' = None
    /\ cv_signal' = cv_signal
    /\ wpc' = wpc

\* a submission whose combine rejects clears the tag and keeps the rest
C7_RejectStep ==
    /\ \A u \in UKeys, payload \in Payloads \cup {Absent}, tag \in Tags \cup {Absent} :
          ( /\ RejectCase(ukeys \cup {u}, vkeys,
                          IF tag # Absent THEN tag ELSE auth_tag,
                          IF payload # Absent /\ encr_payload = <<>>
                          THEN payload ELSE encr_payload)
            /\ u_key(u, payload, tag) )
          => Rejected
    /\ \A v \in VKeys :
          (RejectCase(ukeys, vkeys \cup {v}, auth_tag, encr_payload) /\ v_key(v))
          => Rejected

\* after a rejection, resubmitting a recorded U with the tag of its pair with
\* a recorded V derives that pair's key
C7_RetryStep ==
    \A u \in ukeys, v \in vkeys, payload \in Payloads \cup {Absent} :
        ( /\ rejects >= 1
          /\ payload_symm_key = None
          /\ encr_payload # <<>>
          /\ CanXor(u, v)
          /\ u_key(u, payload, ExpectedTag(Xor(u, v), AgentUuid)) )
        => /\ payload_symm_key' = Some(Xor(u, v))
           /\ ukeys' = ukeys
           /\ vkeys' = vkeys

\* C7: a combine that finds both halves, a payload and a tag matching no
\* pair clears the tag, keeps the keys, derives nothing and does not wake the
\* worker; resubmitting the same U with the right tag then derives the key,
\* and the worker goes on to the release, unless the process ends first.
C7_RejectThenRetry ==
    /\ [][C7_RejectStep /\ C7_RetryStep]_vars
    /\ [](payload_symm_key = None => ~PastWait)
    /\ (rejects >= 1 /\ payload_symm_key # None) ~> (PastWait \/ ProcessEnded)

\* C7 witness: one U and one V, a rejection, then the key, and the worker at
\* the decrypt step.
C7_Witness ==
    /\ rejects >= 1
    /\ ukeys = {<<1>>}
    /\ vkeys = {<<0>>}
    /\ payload_symm_key = Some(<<1>>)
    /\ wpc = "decrypt_payload"

\* C8: with one U, one V of the same length, a payload and their tag the only
\* one submitted, the derived key is U XOR V and the worker's decryption has
\* the one outcome that key and payload give, whichever half came first.
C8_OrderIndependent ==
    \A u \in UKeys, v \in VKeys, order \in {"u", "v"} :
        ( /\ first_half = order
          /\ ukeys = {u}
          /\ vkeys = {v}
          /\ CanXor(u, v)
          /\ submitted_tags = {ExpectedTag(Xor(u, v), AgentUuid)}
          /\ encr_payload # <<>> )
        => /\ payload_symm_key = Some(Xor(u, v))
           /\ accepted_tag = ExpectedTag(Xor(u, v), AgentUuid)
           /\ (decrypt_aead(Xor(u, v), encr_payload) = None /\ PastWait)
                 => wpc \in {"decrypt_payload", "failed"}

\* C8 witness: the V half came first, and the worker has released the payload.
C8_Witness ==
    /\ first_half = "v"
    /\ ukeys = {<<1>>}
    /\ vkeys = {<<0>>}
    /\ submitted_tags = {ExpectedTag(<<1>>, AgentUuid)}
    /\ payload_symm_key = Some(<<1>>)
    /\ wpc = "returned_ok"

\* the steps of main() that come before the HTTP server is bound and run
BeforeServer ==
    {StartupOrder[i] : i \in 1..Len(StartupOrder)}

\* C9: the server accepts connections, and the worker runs, only after
\* register and activate both succeeded; a failure of any startup step ends
\* the process with an error, the server never started.
C9_RegisterBeforeServe ==
    /\ (server_started \/ wpc # "not_started") => (registered /\ activated)
    /\ (exit_code = "Err" /\ main_pc \in BeforeServer) =>
          (~server_started /\ wpc = "not_started")
    /\ (main_pc \in BeforeServer) => ~server_started

\* C9 witness: the server accepts connections and the worker waits.
C9_Witness ==
    /\ server_started
    /\ registered
    /\ activated
    /\ wpc = "waiting"

\* the worker tried to decrypt and authentication failed
DecryptFailed ==
    /\ PastWait
    /\ wpc # "decrypt_payload"
    /\ decrypt_aead(Unwrap(payload_symm_key), encr_payload) = None

\* C10: after a failed decryption the worker has stopped with an error, the
\* staging directory is as it was, nothing was written, extracted or run, the
\* revocation service was not started, and the derived key is still set.
C10_DecryptFailureReleasesNothing ==
    DecryptFailed =>
        /\ wpc = "failed"
        /\ staging = OldStaging
        /\ ~revocation_started
        /\ payload_symm_key # None

\* C10 witness: the key is derived, the payload was encrypted under another
\* key, and the worker has failed.
C10_Witness ==
    /\ DecryptFailed
    /\ wpc = "failed"
    /\ config.run_revocation
    /\ config.payload_script # ""

\* the worker future has resolved, to Ok or to Err
WorkerEnded == wpc \in {"failed", "done"}

C12_ServerOutlivesWorkerFailure ==
    [][(wpc = "failed" /\ Serving) => (Serving' \/ server_done')]_vars

\* C12 as the code has it: when the worker fails it does nothing more, and its
\* error ends the process: main returns Err and the server serves no more.
C12_WorkerFailureEndsProcess ==
    /\ [][wpc = "failed" => wpc' = "failed"]_vars
    /\ (wpc = "failed") ~> (exit_code = "Err" /\ ~Serving)

\* C12 witness: the worker failed at a release step while the server was
\* serving, and main has returned the error.
C12_Witness ==
    /\ wpc = "failed"
    /\ exit_code = "Err"
    /\ server_started
    /\ ~server_done
    /\ staging.dir = "fresh"

\* the AK phase is at its match, with the outcome of load_ak in old_ak
AtAkMatch == exit_code = "running" /\ main_pc = "ak"

\* this step takes main past the AK phase, on to registration
PassesAkPhase == AtAkMatch /\ main_pc' = StepAfter("ak")

\* this step goes on with the AK of the persisted record and generates none
ReusesOldAk ==
    /\ tpm_data # None
    /\ ak' = Some(Unwrap(tpm_data).ak_context)
    /\ aks_created' = aks_created

\* this step generates a new AK, goes on with it and stores its record
StoresNewAk ==
    /\ aks_created' = aks_created + 1
    /\ ak' = Some(aks_created')
    /\ tpm_data' = Some([ak_hash_alg |-> config.hash_alg,
                         ak_sign_alg |-> config.sign_alg,
                         ak_context |-> aks_created'])

\* C13 as the specification states it: a start that gets past the AK phase
\* reuses the persisted AK if and only if the record's (hash_alg, sign_alg)
\* are the configuration's; a matching record is always reused.
C13_ReusedIffMatching ==
    [][PassesAkPhase => (ReusesOldAk <=> ValidTpmData # None)]_vars

\* C13 as the code has it: the persisted AK is reused if and only if the
\* record's algorithms are the configuration's and load_ak gave the AK back;
\* a record that does not match, or none, is never loaded or reused, and a
\* matching record the TPM rejects is not reused either: a new AK is generated.
C13_ReusedIffMatchingAndLoaded ==
    /\ [](AtAkMatch /\ old_ak # None =>
             ValidTpmData # None /\ old_ak = Some(Unwrap(tpm_data).ak_context))
    /\ [][PassesAkPhase => (ReusesOldAk <=> (ValidTpmData # None /\ old_ak # None))]_vars
    /\ [][PassesAkPhase /\ ~ReusesOldAk => aks_created' = aks_created + 1]_vars

\* C13 witness: a record made under other algorithms is on disk, it was not
\* loaded, and main is at the match that will generate a new AK.
C13_Witness ==
    /\ AtAkMatch
    /\ tpm_data # None
    /\ ValidTpmData = None
    /\ old_ak = None

\* C14: the TPM data file changes only in a step that generated a new AK; the
\* step that goes on with a loaded old AK leaves the file as it is; and a step
\* that generated a new AK and lets startup go on has stored that AK's context
\* with the configured hash and signing algorithms.
C14_WrittenOnlyForNewAk ==
    /\ [][tpm_data' # tpm_data =>
             (AtAkMatch /\ old_ak = None /\ aks_created' = aks_created + 1)]_vars
    /\ [][AtAkMatch /\ old_ak # None => tpm_data' = tpm_data]_vars
    /\ [][PassesAkPhase /\ aks_created' # aks_created => StoresNewAk]_vars
    /\ [][PassesAkPhase /\ tpm_data' = tpm_data => ReusesOldAk]_vars

\* C14 witness: main is past the AK phase with the second AK of this TPM,
\* newly generated, and the file holds its context and the configured pair.
C14_Witness ==
    /\ main_pc = StepAfter("ak")
    /\ old_ak = None
    /\ ak = Some(2)
    /\ tpm_data = Some([ak_hash_alg |-> config.hash_alg,
                        ak_sign_alg |-> config.sign_alg, ak_context |-> 2])

\* the record matches the configuration and the TPM rejected its context
LoadRejected == AtAkMatch /\ ValidTpmData # None /\ old_ak = None

\* C15: a matching record whose context the TPM rejects does not fail
\* startup: the load step goes on to the match, from where main can go on to
\* registration, and does so only with a newly generated AK whose record has
\* replaced the rejected one.
C15_StaleContextRecovered ==
    /\ [][main_pc = "load_ak" /\ main_pc' # StartupOrder[1] =>
             (exit_code' = "running" /\ main_pc' = "ak")]_vars
    /\ [](LoadRejected /\ aks_created < MaxAks =>
             ENABLED (UseOrCreateAk /\ main_pc' = "do_register_agent"))
    /\ [][LoadRejected /\ main_pc' = "do_register_agent" =>
             (StoresNewAk /\ tpm_data' # tpm_data)]_vars

\* C15 witness: the first AK's record matches the configuration, the TPM has
\* rejected its context, and main is at the match with no old AK.
C15_Witness ==
    /\ LoadRejected
    /\ tpm_data = Some([ak_hash_alg |-> config.hash_alg,
                        ak_sign_alg |-> config.sign_alg, ak_context |-> 1])

\* the init script was started and its exit status read
ScriptExited == staging.script \in {"exit_zero", "exit_nonzero"}

\* C20: an init script that was run and exited, with status zero or not,
\* makes run and run_encrypted_payload return Ok: the worker's next step is
\* the revocation step, which is open to it, and with revocation configured
\* the service is started after a non-zero exit as after a zero one.
C20_NonZeroExitNotFatal ==
    /\ [][wpc = "payload_script" /\ ScriptExited' =>
             (wpc' = "returned_ok" /\ symm_lock' = "free")]_vars
    /\ [](wpc = "returned_ok" /\ WorkerRuns => ENABLED WorkerRevocation)
    /\ [][wpc = "returned_ok" /\ wpc' # wpc =>
             /\ wpc' = IF config.run_revocation
                       THEN "run_revocation_service" ELSE "done"
             /\ revocation_started' = config.run_revocation
             /\ staging' = staging]_vars

\* C20 witness: the script exited with a non-zero status and the worker has
\* gone on to start the revocation service.
C20_Witness ==
    /\ staging.script = "exit_nonzero"
    /\ wpc = "run_revocation_service"
    /\ revocation_started

\* the call made was of fn, and it has returned
Returned(fn) == call.fn = fn /\ call.done

\* the result is an Error::Configuration
IsConfigurationError(result) ==
    result[1] = "Err" /\ result[2][1] = "Configuration"

\* C16: config_translate_keywords returns a Configuration error for every
\* configuration with enable_agent_mtls set and trusted_client_ca None,
\* whatever the other fields and the environment are.
C16_MtlsNeedsTrustedCa ==
    ( /\ Returned("config_translate_keywords")
      /\ call.arg.config.enable_agent_mtls
      /\ call.arg.config.trusted_client_ca = None )
    => IsConfigurationError(call.result)

\* C16 witness: a configuration with mTLS enabled, no trusted_client_ca and
\* nothing else wrong with it has been rejected.
C16_Witness ==
    /\ Returned("config_translate_keywords")
    /\ call.arg.config.enable_agent_mtls
    /\ call.arg.config.trusted_client_ca = None
    /\ ~call.arg.config.enable_revocation_notifications
    /\ call.result = Err(Configuration("trusted_client_ca"))

\* what C17 says config_get_file_path returns, case by case
FilePathCases(path, work_dir, default) ==
    CASE path = None -> None
      [] path = Some(<<>>) -> None
      [] path = Some(<<"default">>) -> Some(join(work_dir, default))
      [] path \notin {None, Some(<<>>), Some(<<"default">>)}
           /\ is_relative(Unwrap(path)) -> Some(join(work_dir, Unwrap(path)))
      [] path \notin {None, Some(<<>>), Some(<<"default">>)}
           /\ ~is_relative(Unwrap(path)) -> Some(Unwrap(path))

\* C17: config_get_file_path returns None for None and for the empty string,
\* work_dir joined with default for "default", work_dir joined with the path
\* for any other relative path, and the path as it is for an absolute one;
\* every input is in one of these cases.
C17_FilePathCases ==
    Returned("config_get_file_path") =>
        call.result = FilePathCases(call.arg[1], call.arg[2], call.arg[3])

\* C17 witness: the path "default" after a separator is relative and not the
\* keyword, and was joined to a work directory that ends in a separator.
C17_Witness ==
    /\ Returned("config_get_file_path")
    /\ call.arg[1] = Some(<<"a", "/", "default">>)
    /\ call.arg[2] = <<"/", "w", "/">>
    /\ call.result = Some(<<"/", "w", "/", "a", "/", "default">>)

\* a string in the canonical form of a UUID: 36 characters, hyphens at their
\* places, lowercase hexadecimal digits elsewhere
IsCanonicalUuid(s) ==
    /\ Len(s) = HyphenatedLen
    /\ \A i \in 1..HyphenatedLen :
          IF i \in HyphenAt THEN s[i] = "-" ELSE \E j \in 1..16 : HexDigits[j] = s[i]

UuidKeywords == {<<"openstack">>, <<"hash_ek">>, <<"generate">>}

\* C18: get_uuid gives for "generate" a string that parses as a UUID; for a
\* well-formed UUID in any letter case its canonical lowercase form, the same
\* UUID; and for a malformed string that is no keyword a generated UUID in
\* canonical form, which is not the string given.
C18_GetUuid ==
    Returned("get_uuid") =>
        /\ call.arg = <<"generate">> =>
              (parse_str(call.result) # None /\ IsCanonicalUuid(call.result))
        /\ (call.arg \notin UuidKeywords /\ parse_str(call.arg) # None) =>
              /\ IsCanonicalUuid(call.result)
              /\ parse_str(call.result) = parse_str(call.arg)
              /\ Len(call.arg) = HyphenatedLen => call.result = LowerCase(call.arg)
        /\ (call.arg \notin UuidKeywords /\ parse_str(call.arg) = None) =>
              /\ parse_str(call.result) # None
              /\ \E new_v4 \in GeneratedUuids : call.result = to_string(new_v4)
              /\ call.result # call.arg

\* C18 witness: DEFAULT_UUID in upper case with X for its last digit was
\* given, and a generated UUID came back.
C18_Witness ==
    /\ Returned("get_uuid")
    /\ call.arg = [UpperCase(DEFAULT_UUID) EXCEPT ![HyphenatedLen] = "X"]
    /\ parse_str(call.result) # None

\* one of the four options revocation notifications need is None
RevocationOptionMissing(cfg) ==
    \/ cfg.revocation_notification_ip = None
    \/ cfg.revocation_notification_port = None
    \/ cfg.revocation_cert = None
    \/ cfg.revocation_actions_dir = None

\* C19: with enable_revocation_notifications set, config_translate_keywords
\* returns a Configuration error if any of revocation_notification_ip,
\* revocation_notification_port, revocation_cert, revocation_actions_dir is
\* None; with it unset, a None revocation_cert is no error, and the
\* translated revocation_cert is None.
C19_RevocationOptionsRequired ==
    Returned("config_translate_keywords") =>
        LET cfg == call.arg.config
        IN  /\ (cfg.enable_revocation_notifications
                 /\ RevocationOptionMissing(cfg))
                => IsConfigurationError(call.result)
            /\ (~cfg.enable_revocation_notifications
                 /\ cfg.revocation_cert = None
                 /\ ~(cfg.enable_agent_mtls /\ cfg.trusted_client_ca = None))
                => (call.result[1] = "Ok" /\ call.result[2].revocation_cert = None)

\* C19 witness: the only thing wrong with the configuration is that
\* revocation notifications are enabled with no revocation_cert, and it has
\* been rejected.
C19_Witness ==
    /\ Returned("config_translate_keywords")
    /\ call.arg.config.enable_revocation_notifications
    /\ call.arg.config.revocation_cert = None
    /\ call.arg.config.revocation_notification_ip # None
    /\ call.arg.config.revocation_notification_port # None
    /\ call.arg.config.revocation_actions_dir # None
    /\ call.arg.config.trusted_client_ca # None
    /\ IsConfigurationError(call.result)

\* the init-script step failed: the script is missing, or its chmod or the
\* start of the shell failed
ScriptStepFailed == staging.script \in {"not_found", "chmod_failed", "spawn_failed"}

\* C21: a failure of the init-script step (script missing, chmod failure,
\* spawn failure) is recoverable: the worker does not end with an error, it
\* returns Ok from the release and goes on to the revocation hand-off.
C21_ScriptFailureRecoverable ==
    [][wpc = "payload_script" /\ ScriptStepFailed' =>
          (wpc' = "returned_ok" /\ symm_lock' = "free")]_vars

\* nothing of the release has happened: no decryption was started, the staging
\* directory is as the last run left it, no script ran, no hand-off was made
NothingReleased ==
    /\ decrypts = 0
    /\ staging = OldStaging
    /\ ~revocation_started

\* C22: while derived_symm_key is None the worker is never past its wait and
\* nothing of the release (decryption, staging setup, file writes, extraction,
\* init script, hand-off) has happened; a worker that finds the key None after
\* taking the lock or after any wake-up goes (back) to waiting and gives the
\* lock up, and the only way out of the wait is a wake-up that looks at the key
\* again: there is no timeout path.
C22_NoProgressWithoutKey ==
    /\ [](payload_symm_key = None => (~PastWait /\ NothingReleased))
    /\ [][wpc = "check" /\ payload_symm_key = None /\ wpc' # wpc =>
             (wpc' = "waiting" /\ symm_lock' = "free" /\ NothingReleased')]_vars
    /\ [][wpc = "waiting" /\ wpc' # wpc =>
             (wpc' = "check" /\ symm_lock' = "worker" /\ NothingReleased')]_vars

\* C22 witness: the worker is back in its wait after a wake-up, with halves of
\* both kinds recorded, a candidate rejected and the key still None.
C22_Witness ==
    /\ wpc = "waiting"
    /\ payload_symm_key = None
    /\ rejects >= 1
    /\ ukeys # {}
    /\ vkeys # {}

\* the steps of the release in the order of run_encrypted_payload and worker
ReleaseOrder ==
    <<"decrypt_payload", "setup_unzipped", "write_out_key_and_payload",
      "optional_unzip_payload", "payload_script", "returned_ok">>

\* the step after a step of the release that succeeded
ReleaseStepAfter(step) ==
    IF step = "returned_ok"
    THEN IF config.run_revocation THEN "run_revocation_service" ELSE "done"
    ELSE LET i == CHOOSE j \in 1..Len(ReleaseOrder) : ReleaseOrder[j] = step
         IN  ReleaseOrder[i + 1]

\* what is true once each step of the release has succeeded
DecryptDone ==
    /\ payload_symm_key # None
    /\ decrypt_aead(Unwrap(payload_symm_key), encr_payload) # None

SetupDone == DecryptDone /\ staging.dir = "fresh"

WriteDone == SetupDone /\ staging.key_file /\ staging.payload_file

UnzipDone == WriteDone /\ staging.extracted = config.extract_payload_zip

ScriptDone ==
    /\ UnzipDone
    /\ IF config.payload_script = "" THEN staging.script = "not_run" ELSE ScriptExited

\* C23: after its wake-up the worker's steps come in one order: decrypt,
\* staging setup, write of key and payload, extraction (only with
\* extract_payload_zip), init script (only with a non-empty payload_script),
\* revocation hand-off (only with run_revocation). A step is reached only
\* after all earlier ones succeeded, each effect is made only at its own step,
\* and a worker that failed makes no later step.
C23_ReleaseInOrder ==
    /\ [][\E i \in 1..Len(ReleaseOrder) :
             wpc = ReleaseOrder[i] /\ wpc' # wpc =>
                wpc' \in {ReleaseStepAfter(wpc), "failed"}]_vars
    /\ [](wpc = "setup_unzipped" => (DecryptDone /\ staging = OldStaging))
    /\ [](wpc = "write_out_key_and_payload" =>
             (SetupDone /\ ~staging.key_file /\ ~staging.payload_file))
    /\ [](wpc = "optional_unzip_payload" => (WriteDone /\ ~staging.extracted))
    /\ [](wpc = "payload_script" => (UnzipDone /\ staging.script = "not_run"))
    /\ [](wpc \in {"returned_ok", "run_revocation_service", "done"} => ScriptDone)
    /\ [](wpc \in {"decrypt_payload", "setup_unzipped", "write_out_key_and_payload",
                   "optional_unzip_payload", "payload_script", "returned_ok"} =>
             ~revocation_started)
    /\ [](revocation_started => (config.run_revocation /\ ScriptDone))
    /\ [](staging.extracted => config.extract_payload_zip)
    /\ [](staging.script # "not_run" => config.payload_script # "")
    /\ [][staging'.dir # staging.dir => wpc = "setup_unzipped"]_vars
    /\ [][staging'.key_file # staging.key_file \/
          staging'.payload_file # staging.payload_file =>
             wpc = "write_out_key_and_payload"]_vars
    /\ [][staging'.extracted # staging.extracted =>
             wpc = "optional_unzip_payload"]_vars
    /\ [][staging'.script # staging.script => wpc = "payload_script"]_vars
    /\ [][revocation_started' # revocation_started => wpc = "returned_ok"]_vars
    /\ [][wpc = "failed" =>
             (wpc' = "failed" /\ staging' = staging /\ decrypts' = decrypts
              /\ revocation_started' = revocation_started)]_vars

\* C23 witness: every step of the release was made, the optional ones
\* included, and the hand-off to the revocation service came last.
C23_Witness ==
    /\ revocation_started
    /\ wpc = "run_revocation_service"
    /\ staging.extracted
    /\ staging.script = "exit_zero"
    /\ config.extract_payload_zip
    /\ config.payload_script # ""

\* the worker is at the decrypt step or at a later step of the release
InRelease ==
    wpc \in {"decrypt_payload", "setup_unzipped", "write_out_key_and_payload",
             "optional_unzip_payload", "payload_script"}

\* C24: the worker has given up the lock of derived_symm_key before it
\* decrypts and before every later step of the release, so that a handler that
\* needs the lock is not kept waiting for the time of the decryption, the file
\* writes or the init script.
C24_LockFreeDuringRelease ==
    InRelease => symm_lock = "free"

\* startup has got past the AK phase: main is at a step after the match on
\* old_ak
PastAkPhase ==
    main_pc \notin {"get_tpm2_ctx", "get_tpm_vendor", "config_build", "create_ek",
                    "load_ak", "ak"}

\* the persisted record is the one of the AK in use under the configuration
RecordOfAkInUse ==
    /\ tpm_data # None
    /\ ak # None
    /\ Unwrap(tpm_data) = [ak_hash_alg |-> config.hash_alg,
                           ak_sign_alg |-> config.sign_alg,
                           ak_context |-> Unwrap(ak)]

\* C28: over any sequence of restarts, with the hash and signing algorithms
\* changed at will between them, whenever startup gets past the AK phase the
\* persisted record holds the configured hash and signing algorithms and the
\* context of the AK in use; and a startup that finds a record made under
\* another algorithm gets past the AK phase only by generating a new AK and
\* replacing the record.
C28_RecordMatchesConfig ==
    /\ [](PastAkPhase => RecordOfAkInUse)
    /\ [][PassesAkPhase /\ tpm_data # None /\ ValidTpmData = None =>
             (StoresNewAk /\ tpm_data' # tpm_data
              /\ aks_created' = aks_created + 1)]_vars

\* C28 witness: a restarted agent, on a TPM that has already made two other
\* AKs, is past the AK phase under sha384 and ecdsa with its third AK and the
\* record of it.
C28_Witness ==
    /\ PastAkPhase
    /\ config.hash_alg = "sha384"
    /\ config.sign_alg = "ecdsa"
    /\ ak = Some(3)
    /\ tpm_data = Some([ak_hash_alg |-> "sha384", ak_sign_alg |-> "ecdsa",
                        ak_context |-> 3])

\* the agent uuid is a UUID in canonical form, or one of the two keywords that
\* are resolved later, and then the very string that was configured
UuidOrKeyword(uuid, configured) ==
    \/ IsCanonicalUuid(uuid) /\ parse_str(uuid) # None
    \/ uuid \in {<<"openstack">>, <<"hash_ek">>} /\ uuid = configured

\* C29: for every input, the agent uuid that config_translate_keywords returns
\* is a canonical lowercase 36-character UUID, or exactly "openstack" or
\* "hash_ek" as configured; the same is true of get_uuid, which computes it,
\* on every string.
C29_UuidCanonicalOrKeyword ==
    /\ Returned("get_uuid") => UuidOrKeyword(call.result, call.arg)
    /\ (Returned("config_translate_keywords") /\ call.result[1] = "Ok") =>
          UuidOrKeyword(call.result[2].uuid, call.arg.config.uuid)

\* C29 witness: config_translate_keywords was given a malformed uuid and
\* returned a configuration whose uuid is a generated one.
C29_Witness ==
    /\ Returned("config_translate_keywords")
    /\ call.arg.config.uuid = <<"G">>
    /\ call.result[1] = "Ok"
    /\ IsCanonicalUuid(call.result[2].uuid)

\* main is at a step that uses the TPM context
MainTpmOp == exit_code = "running" /\ main_pc \in TpmSteps

\* how many TPM operations are in progress
TpmOpsInProgress == Cardinality(tpm_ops) + (IF MainTpmOp THEN 1 ELSE 0)

\* C26: at most one TPM operation is in progress at any time. While main uses
\* the context in its startup sequence the server does not exist, no handler
\* holds the context and none has an operation in progress; once the server
\* runs, a handler has an operation in progress only while it holds the
\* context mutex, from before the operation starts until after it ends.
C26_OneTpmOperation ==
    /\ [](TpmOpsInProgress <= 1)
    /\ [](MainTpmOp => (~server_started /\ tpmcontext = "free" /\ tpm_ops = {}))
    /\ [](\A h \in tpm_ops : tpmcontext = h /\ server_started)
    /\ [][\A h \in QuoteHandlers :
             (h \in tpm_ops /\ exit_code' = "running") =>
                (h \in tpm_ops' \/ tpmcontext' = h)]_vars

\* C26 witness: the server runs after a complete startup and the identity
\* handler has a TPM operation in progress under the mutex.
C26_Witness ==
    /\ Serving
    /\ tpm_ops = {"identity"}
    /\ tpmcontext = "identity"
    /\ activated

\* the rendezvous before any submission
EmptyRendezvous ==
    [ukeys |-> {}, vkeys |-> {}, auth_tag |-> ZeroTag, encr_payload |-> <<>>,
     key |-> None]

\* the rendezvous r after the submission s and the combine that follows it,
\* with the first matching candidate taken
Submitted(r, s) ==
    LET us == IF s.kind = "u" THEN r.ukeys \cup {s.half} ELSE r.ukeys
        vs == IF s.kind = "v" THEN r.vkeys \cup {s.half} ELSE r.vkeys
        payload == IF s.kind = "u" /\ s.payload # Absent /\ r.encr_payload = <<>>
                   THEN s.payload ELSE r.encr_payload
        tag == IF s.kind = "u" /\ s.tag # Absent THEN s.tag ELSE r.auth_tag
        idle == \/ r.key # None
                \/ ~(\E u \in us, v \in vs : CanXor(u, v))
                \/ tag = ZeroTag
                \/ payload = <<>>
        found == ~idle /\ Matching(us, vs, tag) # {}
    IN  [ukeys |-> us, vkeys |-> vs, encr_payload |-> payload,
         auth_tag |-> IF idle \/ found THEN tag ELSE ZeroTag,
         key |-> IF found
                 THEN Some(CHOOSE candidate \in Matching(us, vs, tag) : TRUE)
                 ELSE r.key]

\* the rendezvous after a sequence of submissions
RECURSIVE RendezvousAfter(_)
RendezvousAfter(seq) ==
    IF seq = <<>>
    THEN EmptyRendezvous
    ELSE Submitted(RendezvousAfter(SubSeq(seq, 1, Len(seq) - 1)), seq[Len(seq)])

ReleaseFailed == wpc = "failed" /\ ~revocation_started

\* C31: the revocation service is started only by the worker's step after a
\* release that returned Ok, and only with run_revocation set: it is never
\* started while no key is derived, and once a step of the release has failed
\* it is never started afterwards, with revocation enabled or not.
C31_RevocationOnlyAfterRelease ==
    /\ [][revocation_started' # revocation_started =>
             /\ ~revocation_started
             /\ wpc = "returned_ok"
             /\ wpc' = "run_revocation_service"
             /\ config.run_revocation
             /\ payload_symm_key # None
             /\ ScriptDone]_vars
    /\ [](payload_symm_key = None => ~revocation_started)
    /\ [](~config.run_revocation => ~revocation_started)
    /\ [](ReleaseFailed => [](~revocation_started))

\* C31 witness: revocation is enabled, the release failed after the key and
\* the payload were written out, and the service has not been started.
C31_Witness ==
    /\ config.run_revocation
    /\ ReleaseFailed
    /\ staging.key_file
    /\ staging.payload_file

\* C32: every configuration that config_translate_keywords returns with Ok
\* and enable_agent_mtls set has a trusted_client_ca that is not None, for
\* every value of trusted_client_ca it was given, the empty string included.
C32_MtlsHasTrustedCa ==
    ( /\ Returned("config_translate_keywords")
      /\ call.result[1] = "Ok"
      /\ call.result[2].enable_agent_mtls )
    => call.result[2].trusted_client_ca # None

\* a uuid that is well-formed, or one of the two keywords passed through
WellFormedOrSentinel(uuid) ==
    uuid \in {<<"openstack">>, <<"hash_ek">>} \/ parse_str(uuid) # None

\* config_translate_keywords, applied again to what it returned with Ok under
\* the same environment, returns the same
TranslatedAgain(result, env) ==
    \A new_v4 \in GeneratedUuids :
       LET again == config_translate_keywords(result[2], env, new_v4)
       IN  again[1] = "Ok" /\ again[2] = result[2]

\* C33: config_translate_keywords is idempotent on its own successful output:
\* for a configuration c with a well-formed or sentinel uuid, if translating
\* c gives Ok(c1) then translating c1 in the same environment gives Ok(c1).
C33_TranslateIdempotent ==
    ( /\ Returned("config_translate_keywords")
      /\ call.result[1] = "Ok"
      /\ WellFormedOrSentinel(call.arg.config.uuid) )
    => TranslatedAgain(call.result, call.arg.env)

====
